---- MODULE Spec2Model ----
(***************************************************************************)
(* Model of src/plugins/calendar/calendar.py (class Calendar):             *)
(*   - get_view_range: the date window of a view (specification SpecWindow)*)
(*   - parse_data_points and the construction of one event record          *)
(*     (specification SpecParse)                                           *)
(*   - fetch_ics_events: the aggregation loop over the calendar sources    *)
(*     (specification SpecAgg)                                             *)
(*   - generate_image: validation, aggregation, the hide-completed filter  *)
(*     and the rendering (specification Spec)                              *)
(***************************************************************************)
EXTENDS Integers, Sequences, FiniteSets, TLC

\* The value of settings.get(key) for a missing key, and of an unset result.
None == "<None>"

----------------------------------------------------------------------------
(* datetime / timedelta arithmetic on the proleptic Gregorian calendar, as  *)
(* CPython's datetime module computes it.  A datetime of the window code is *)
(* [year, month, day, hour]: the hour stands for the whole time of day.     *)

\* The years the current date is drawn from (2024 is a leap year).
FirstYear == 2023
LastYear == 2024

\* The hours of the day the current instant is drawn from.
Hours == {0, 13}

IsLeap(y) == (y % 4 = 0) /\ ((y % 100 # 0) \/ (y % 400 = 0))

DaysInMonth(y, m) ==
  IF m = 2 THEN (IF IsLeap(y) THEN 29 ELSE 28)
  ELSE IF m \in {4, 6, 9, 11} THEN 30 ELSE 31

DaysBeforeYear(y) ==
  (y - 1) * 365 + ((y - 1) \div 4) - ((y - 1) \div 100) + ((y - 1) \div 400)

RECURSIVE DaysBeforeMonth(_, _)
DaysBeforeMonth(y, m) ==
  IF m = 1 THEN 0 ELSE DaysBeforeMonth(y, m - 1) + DaysInMonth(y, m - 1)

\* date.toordinal(): day 1 is 0001-01-01.
ToOrdinal(dt) == DaysBeforeYear(dt.year) + DaysBeforeMonth(dt.year, dt.month) + dt.day

\* date.fromordinal(n), with the time of day hour h.
FromOrdinal(n, h) ==
  LET y == CHOOSE yy \in ((n \div 366) .. (n \div 365 + 1)) :
             DaysBeforeYear(yy) < n /\ n <= DaysBeforeYear(yy + 1)
      r == n - DaysBeforeYear(y)
      m == CHOOSE mm \in 1..12 :
             DaysBeforeMonth(y, mm) < r /\ r <= DaysBeforeMonth(y, mm) + DaysInMonth(y, mm)
  IN [year |-> y, month |-> m, day |-> r - DaysBeforeMonth(y, m), hour |-> h]

\* datetime + timedelta(days=n): the time of day is kept.
AddDays(dt, n) == FromOrdinal(ToOrdinal(dt) + n, dt.hour)

\* datetime(y, m, d): midnight.
Midnight(y, m, d) == [year |-> y, month |-> m, day |-> d, hour |-> 0]

\* datetime.weekday(): Monday is 0.
Weekday(dt) == (ToOrdinal(dt) + 6) % 7

----------------------------------------------------------------------------
(* get_view_range                                                           *)

ValidViews ==
  {"timeGridDay", "timeGridWeek", "dayGridMonth", "listMonth", "listWeek", "listYear", "listDay"}

\* view.startswith("list")
StartsWithList(view) == view \in {"listMonth", "listWeek", "listYear", "listDay"}

\* int(s) for the decimal strings a weekStartDay setting holds.
IntOf(s) ==
  CASE s = "1" -> 1 [] s = "2" -> 2 [] s = "3" -> 3 [] s = "4" -> 4
    [] s = "5" -> 5 [] s = "6" -> 6 [] s = "7" -> 7

\* int(settings.get("weekStartDay", 1))
WeekStartDayOf(settings) ==
  IF settings.weekStartDay = None THEN 1 ELSE IntOf(settings.weekStartDay)

\* The mutant of WeekGridStart that keeps the time of day of current_dt.
WeekGridStartKeepsTime(current_dt, settings) ==
  LET week_start_day == WeekStartDayOf(settings)
      python_week_start == (week_start_day - 1) % 7
      offset == (Weekday(current_dt) - python_week_start) % 7
  IN AddDays(current_dt, 0 - offset)

\* The mutant of WeekGridStart that takes weekStartDay as a 0-based weekday.
WeekGridStartZeroBased(current_dt, settings) ==
  LET week_start_day == WeekStartDayOf(settings)
      python_week_start == week_start_day % 7
      offset == (Weekday(current_dt) - python_week_start) % 7
      start == AddDays(current_dt, 0 - offset)
  IN Midnight(start.year, start.month, start.day)

\* Lines 111-115: the start of the week that holds current_dt.
WeekGridStart(current_dt, settings) ==
  LET week_start_day == WeekStartDayOf(settings)
      python_week_start == (week_start_day - 1) % 7
      offset == (Weekday(current_dt) - python_week_start) % 7
      start == AddDays(current_dt, 0 - offset)
  IN Midnight(start.year, start.month, start.day)

\* The mutant of MonthGridRange that pads with the length of the month.
MonthGridRangeByLength(current_dt) ==
  LET first == Midnight(current_dt.year, current_dt.month, 1)
  IN <<AddDays(first, 0 - 7),
       AddDays(first, DaysInMonth(current_dt.year, current_dt.month) + 7)>>

\* Lines 118-119: one week before the first of the month, six weeks after it.
MonthGridRange(current_dt) ==
  LET first == Midnight(current_dt.year, current_dt.month, 1)
  IN <<AddDays(first, 0 - 7 * 1), AddDays(first, 7 * 6)>>

\* The result is <<start, end>>.  A view no branch matches leaves `end`
\* unbound (UnboundLocalError): no range, <<>>.
get_view_range(view, current_dt, settings) ==
  LET start == Midnight(current_dt.year, current_dt.month, current_dt.day)
  IN CASE view = "timeGridDay" -> <<start, AddDays(start, 1)>>
       [] view = "timeGridWeek" ->
            LET wstart == IF settings.displayPreviousDays = "true"
                          THEN WeekGridStart(current_dt, settings)
                          ELSE start
            IN <<wstart, AddDays(wstart, 7)>>
       [] view = "dayGridMonth" -> MonthGridRange(current_dt)
       [] StartsWithList(view) -> <<start, AddDays(start, 7 * 2)>>
       [] OTHER -> <<>>


----------------------------------------------------------------------------
(* Occurrences, as the recurrence-expanding reader returns them             *)
(*                                                                          *)
(* A decoded marker (event.decoded("dtstart") / ("dtend")) is a date        *)
(*   [kind |-> "date", day |-> d]                                           *)
(* or a datetime                                                            *)
(*   [kind |-> "datetime", wall |-> w, off |-> o, aware |-> b]              *)
(* with w the local wall clock in hours since day 0 and o the UTC offset in *)
(* hours (b = FALSE: a naive datetime, o unused).  A duration is a          *)
(* timedelta in hours.  An occurrence is a record with the keys dtstart     *)
(* and, each optional, summary, dtend, duration.  A time zone is its UTC    *)
(* offset in hours.                                                         *)

Date(d) == [kind |-> "date", day |-> d]
Aware(w, o) == [kind |-> "datetime", wall |-> w, off |-> o, aware |-> TRUE]
Naive(w) == [kind |-> "datetime", wall |-> w, off |-> 0, aware |-> FALSE]

\* isinstance(x, datetime)
IsDatetime(m) == m.kind = "datetime"

\* The point of the UTC time line an aware datetime denotes.
Instant(dt) == dt.wall - dt.off

\* datetime.astimezone(tz): the same instant on the wall clock of tz.
astimezone(dt, tz) == Aware(dt.wall - dt.off + tz, tz)

\* dtstart + duration: a date moves by the whole days of the timedelta only.
PlusDuration(m, hours) ==
  IF IsDatetime(m) THEN [m EXCEPT !.wall = m.wall + hours]
  ELSE Date(m.day + (hours \div 24))

\* isoformat(): the text as the tuple of its parts: <<day>> for a date,
\* <<day, hour, offset>> for an aware datetime, <<day, hour>> for a naive one.
isoformat(m) ==
  IF ~ IsDatetime(m) THEN <<m.day>>
  ELSE IF m.aware THEN <<m.wall \div 24, m.wall % 24, m.off>>
  ELSE <<m.wall \div 24, m.wall % 24>>

\* datetime.fromisoformat(text): a date-only text gives a naive midnight.
fromisoformat(text) ==
  CASE Len(text) = 1 -> Naive(24 * text[1])
    [] Len(text) = 2 -> Naive(24 * text[1] + text[2])
    [] Len(text) = 3 -> Aware(24 * text[1] + text[2], text[3])

\* str() of a natural number.
DigitText(n) ==
  CASE n = 0 -> "0" [] n = 1 -> "1" [] n = 2 -> "2" [] n = 3 -> "3" [] n = 4 -> "4"
    [] n = 5 -> "5" [] n = 6 -> "6" [] n = 7 -> "7" [] n = 8 -> "8" [] n = 9 -> "9"

RECURSIVE NatText(_)
NatText(n) == IF n < 10 THEN DigitText(n) ELSE NatText(n \div 10) \o DigitText(n % 10)

\* str(event.get("dtstart")): the text of the undecoded property, which
\* wraps the text of the date or datetime it holds.  Every such text opens
\* with the name of the wrapper, so none is another one behind an underscore.
StrOfStart(m) ==
  "vDDDTypes(" \o
  (IF ~ IsDatetime(m) THEN "day" \o NatText(m.day)
   ELSE "day" \o NatText(m.wall \div 24) \o " " \o NatText(m.wall % 24) \o ":00"
        \o (IF m.off < 0 THEN "-" \o NatText(0 - m.off) ELSE "+" \o NatText(m.off)))
  \o ")"

\* str(event.get("summary")): a missing summary reads "None".
StrOfSummary(event) ==
  IF "summary" \in DOMAIN event THEN event.summary ELSE "None"

----------------------------------------------------------------------------
(* parse_data_points, get_contrast_color, and the body of the loop of       *)
(* fetch_ics_events                                                         *)

\* The text of an absent end: parse_data_points returns None for it.
NoText == <<>>

\* Lines 126-131: the start text and the all-day flag.
StartOf(event, tz) ==
  IF IsDatetime(event.dtstart)
  THEN <<isoformat(astimezone(event.dtstart, tz)), FALSE>>
  ELSE <<isoformat(event.dtstart), TRUE>>

\* The mutant of EndOf that prefers the duration to an explicit end.
EndOfDurationFirst(event, tz) ==
  IF "duration" \in DOMAIN event
  THEN isoformat(PlusDuration(event.dtstart, event.duration))
  ELSE IF "dtend" \in DOMAIN event
  THEN (IF IsDatetime(event.dtend)
        THEN isoformat(astimezone(event.dtend, tz))
        ELSE isoformat(event.dtend))
  ELSE NoText

\* Lines 133-142: the end text.
EndOf(event, tz) ==
  IF "dtend" \in DOMAIN event
  THEN (IF IsDatetime(event.dtend)
        THEN isoformat(astimezone(event.dtend, tz))
        ELSE isoformat(event.dtend))
  ELSE IF "duration" \in DOMAIN event
  THEN isoformat(PlusDuration(event.dtstart, event.duration))
  ELSE NoText

\* start, end, all_day
parse_data_points(event, tz) ==
  <<StartOf(event, tz)[1], EndOf(event, tz), StartOf(event, tz)[2]>>

\* ImageColor.getrgb for the colours of the model.
GetRGB(color) ==
  CASE color = "#ffffff" -> <<255, 255, 255>>
    [] color = "#000000" -> <<0, 0, 0>>
    [] color = "#969696" -> <<150, 150, 150>>

\* yiq >= 150, with yiq = (r * 299 + g * 587 + b * 114) / 1000
get_contrast_color(color) ==
  LET rgb == GetRGB(color)
      yiq1000 == rgb[1] * 299 + rgb[2] * 587 + rgb[3] * 114
  IN IF yiq1000 >= 150 * 1000 THEN "#000000" ELSE "#ffffff"

\* The mutant of EventKey that leaves the start marker out of the key.
EventKeyTitleOnly(event) == StrOfSummary(event) \o "_"

\* Line 89: str(event.get("summary")) + "_" + str(event.get("dtstart"))
EventKey(event) == StrOfSummary(event) \o "_" \o StrOfStart(event.dtstart)

\* Lines 88, 91-99: the record of one occurrence; the key "end" only when
\* the end text is truthy.
ParsedEvent(event, color, contrast_color, tz) ==
  LET p == parse_data_points(event, tz)
  IN IF p[2] # NoText
     THEN [title |-> StrOfSummary(event), start |-> p[1], backgroundColor |-> color,
           textColor |-> contrast_color, allDay |-> p[3], end |-> p[2]]
     ELSE [title |-> StrOfSummary(event), start |-> p[1], backgroundColor |-> color,
           textColor |-> contrast_color, allDay |-> p[3]]

\* The mutant of AddEvent that puts a new event in front of the list.
AddEventInFront(acc, event, color, contrast_color, tz) ==
  IF EventKey(event) \notin acc.seen
  THEN [parsed |-> <<ParsedEvent(event, color, contrast_color, tz)>> \o acc.parsed,
        seen |-> acc.seen \cup {EventKey(event)}]
  ELSE acc

\* Lines 88-102: one pass of the inner loop; acc holds parsed_events and
\* seen_events.
AddEvent(acc, event, color, contrast_color, tz) ==
  IF EventKey(event) \notin acc.seen
  THEN [parsed |-> Append(acc.parsed, ParsedEvent(event, color, contrast_color, tz)),
        seen |-> acc.seen \cup {EventKey(event)}]
  ELSE acc

\* Lines 86-102: the inner loop over the events of one source.
RECURSIVE AddEvents(_, _, _, _, _)
AddEvents(acc, events, color, contrast_color, tz) ==
  IF events = <<>> THEN acc
  ELSE AddEvents(AddEvent(acc, Head(events), color, contrast_color, tz),
                 Tail(events), color, contrast_color, tz)

\* zip(calendar_urls, colors): as long as the shorter of the two.
Min(a, b) == IF a <= b THEN a ELSE b
Zip(calendar_urls, colors) ==
  [i \in 1..Min(Len(calendar_urls), Len(colors)) |-> <<calendar_urls[i], colors[i]>>]

----------------------------------------------------------------------------
(* The hide-completed filter and the checks of generate_image               *)

RECURSIVE HideCompleted(_, _)
\* Line 61: list(filter(lambda it: fromisoformat(it["end"]) > current_dt, events)).
\* The result is [error, events]: error is "" or the exception raised by the
\* first event the lambda fails on: KeyError for an event without "end",
\* TypeError for comparing a naive datetime with the aware current_dt.
HideCompleted(events, current_dt) ==
  IF events = <<>> THEN [error |-> "", events |-> <<>>]
  ELSE LET it == Head(events)
       IN IF "end" \notin DOMAIN it THEN [error |-> "KeyError", events |-> <<>>]
          ELSE LET e == fromisoformat(it.end)
               IN IF e.aware # current_dt.aware
                  THEN [error |-> "TypeError", events |-> <<>>]
                  ELSE LET rest == HideCompleted(Tail(events), current_dt)
                       IN IF rest.error # "" THEN rest
                          ELSE IF Instant(e) > Instant(current_dt)
                          THEN [error |-> "", events |-> <<it>> \o rest.events]
                          ELSE rest

\* settings.get(key) is None: the key is missing.
Missing(settings, key) == key \notin DOMAIN settings

\* str.strip() of a text given as the tuple of its characters.
RECURSIVE LStrip(_)
LStrip(t) == IF t # <<>> /\ Head(t) = " " THEN LStrip(Tail(t)) ELSE t
RECURSIVE RStrip(_)
RStrip(t) == IF t # <<>> /\ t[Len(t)] = " " THEN RStrip(SubSeq(t, 1, Len(t) - 1)) ELSE t
Strip(t) == RStrip(LStrip(t))

\* The mutant of ConfigError that accepts a blank calendar URL.
ConfigErrorBlankAccepted(settings) ==
  IF Missing(settings, "viewMode") \/ settings.viewMode = "" THEN "View is required"
  ELSE IF settings.viewMode \notin ValidViews THEN "Invalid view"
  ELSE IF Missing(settings, "calendarURLs") \/ settings.calendarURLs = <<>>
  THEN "At least one calendar URL is required"
  ELSE ""

\* Lines 30-39: the message of the RuntimeError raised, "" when none is.
ConfigError(settings) ==
  IF Missing(settings, "viewMode") \/ settings.viewMode = "" THEN "View is required"
  ELSE IF settings.viewMode \notin ValidViews THEN "Invalid view"
  ELSE IF Missing(settings, "calendarURLs") \/ settings.calendarURLs = <<>>
  THEN "At least one calendar URL is required"
  ELSE IF \E i \in 1..Len(settings.calendarURLs) : Strip(settings.calendarURLs[i]) = <<>>
  THEN "Invalid calendar URL"
  ELSE ""

ConfigErrors ==
  {"View is required", "Invalid view", "At least one calendar URL is required",
   "Invalid calendar URL"}

----------------------------------------------------------------------------
(* Bounds and input sets                                                    *)

\* The longest list of calendar URLs and of colours.
MaxSources == 2
\* The occurrences all the readers of one fetch_ics_events call return.
MaxEvents == 3
\* The occurrences all the readers of one generate_image call return.
MaxFeed == 1

SeqsUpTo(S, n) == UNION {[1..k -> S] : k \in 0..n}

\* timezone: America/New_York by default, on standard time.
DefaultZone == 0 - 5
Zones == {DefaultZone, 0, 1}

Colours == {"#ffffff", "#000000"}

\* Calendar URLs as tuples of characters: empty, blank, and two that are not.
Locations == {<<>>, <<" ">>, <<"a">>, <<" ", "b">>}

ViewInputs == ValidViews \cup {"", "agenda"}

\* The markers of the model: dates and aware datetimes.  Aware(34, 0) and
\* Aware(29, -5) are one instant written in two zones.
Markers == {Date(1), Date(2), Aware(34, 0), Aware(29, 0 - 5)}

WithKey(r, key, values) == {r} \cup {r @@ (key :> v) : v \in values}

\* Every occurrence over the markers: summary, dtend and duration optional.
ParseEvents ==
  UNION {UNION {WithKey(e2, "duration", {1, 24, 25}) :
                  e2 \in UNION {WithKey(e1, "dtend", Markers) :
                                  e1 \in WithKey([dtstart |-> m], "summary", {"None", "a_b"})}} :
           m \in Markers}

\* The occurrences the readers of a fetch_ics_events call are drawn from:
\* one title at one instant under two markers (Timed, TimedOtherZone), one
\* key from a missing and from a present summary, with different ends
\* (Untitled, TitledNone), and a title with an underscore (Underscore).
Timed == [summary |-> "a", dtstart |-> Aware(34, 0)]
TimedOtherZone == [summary |-> "a", dtstart |-> Aware(29, 0 - 5)]
Untitled == [dtstart |-> Date(1)]
TitledNone == [summary |-> "None", dtstart |-> Date(1), duration |-> 24]
Underscore == [summary |-> "a_b", dtstart |-> Aware(34, 0)]

AggPool == {Timed, TimedOtherZone, Untitled, TitledNone, Underscore}

\* The current instants of the model, in hours on the UTC time line.
Nows == {36}

\* The occurrences the readers of a generate_image call are drawn from: no
\* end, an end at the current instant, an end after it, an all-day end.
ImagePool ==
  {[summary |-> "a", dtstart |-> Aware(34, 0)],
   [summary |-> "b", dtstart |-> Aware(34, 0), dtend |-> Aware(36, 0)],
   [summary |-> "c", dtstart |-> Aware(34, 0), duration |-> 24],
   [summary |-> "d", dtstart |-> Date(1), dtend |-> Date(2)]}

\* What one call of fetch_calendar gives: a failure (RuntimeError) or the
\* list of the occurrences in the window, at most `room` of them.
ReaderOutcomes(pool, room) ==
  {[ok |-> FALSE, events |-> <<>>]} \cup
  {[ok |-> TRUE, events |-> es] : es \in SeqsUpTo(pool, room)}

----------------------------------------------------------------------------
VARIABLES
  wView,       \* get_view_range: the view argument
  wNow,        \* get_view_range: the current_dt argument
  wSettings,   \* get_view_range: the settings argument
  wRange,      \* get_view_range: the returned <<start, end>>, <<>> before the call
  wpc,         \* get_view_range: "call", then "returned" or "error"
  pEvent,      \* parse_data_points: the occurrence
  pColor,      \* the colour of the source of pEvent
  pOut,        \* <<the record built for pEvent>>, <<>> before
  settings,    \* generate_image: viewMode, calendarURLs, calendarColors
  tz,          \* the time zone of the device
  current_dt,  \* generate_image: datetime.now(tz)
  pc,          \* "validate", "fetch", "returned", "rendered", "error"
  error,       \* the exception that ended the call, "" when none did
  idx,         \* fetch_ics_events: the pairs of the zip consumed
  reads,       \* the calls of fetch_calendar so far: [url, ok, events]
  parsed_events, \* fetch_ics_events: parsed_events
  seen_events,   \* fetch_ics_events: seen_events
  events       \* generate_image: events, <<>> before fetch_ics_events returns

windowVars == <<wView, wNow, wSettings, wRange, wpc>>
parseVars == <<pEvent, pColor, pOut>>
imageVars == <<settings, current_dt, pc, error, idx, reads, parsed_events, seen_events, events>>

vars == <<wView, wNow, wSettings, wRange, wpc, pEvent, pColor, pOut, settings, tz,
          current_dt, pc, error, idx, reads, parsed_events, seen_events, events>>

\* The variables of a part of the program that a specification does not run.
WindowIdle ==
  /\ wView = "" /\ wNow = Midnight(1, 1, 1) /\ wSettings = <<>> /\ wRange = <<>>
  /\ wpc = "idle"
ParseIdle ==
  /\ pEvent = [dtstart |-> Date(1)] /\ pColor = "" /\ pOut = <<>>
ImageIdle ==
  /\ settings = <<>> /\ current_dt = Aware(0, 0) /\ pc = "idle" /\ error = ""
  /\ idx = 0 /\ reads = <<>> /\ parsed_events = <<>> /\ seen_events = {}
  /\ events = <<>>

CurrentDates ==
  {dt \in [year : FirstYear..LastYear, month : 1..12, day : 1..31, hour : Hours] :
     dt.day <= DaysInMonth(dt.year, dt.month)}

WindowSettings ==
  [displayPreviousDays : {"true", "false"},
   weekStartDay : {"1", "2", "3", "4", "5", "6", "7", None}]

InitWindow ==
  /\ wView \in ValidViews
  /\ wNow \in CurrentDates
  /\ wSettings \in WindowSettings
  /\ wRange = <<>>
  /\ wpc = "call"
  /\ ParseIdle /\ ImageIdle /\ tz = DefaultZone

\* start, end = self.get_view_range(view, current_dt, settings)
ResolveWindow ==
  /\ wpc = "call"
  /\ wRange' = get_view_range(wView, wNow, wSettings)
  /\ wpc' = IF wRange' = <<>> THEN "error" ELSE "returned"
  /\ UNCHANGED <<wView, wNow, wSettings, parseVars, imageVars, tz>>

NextWindow == ResolveWindow

SpecWindow == InitWindow /\ [][NextWindow]_vars

----------------------------------------------------------------------------
(* parse_data_points and the record of one occurrence: SpecParse            *)

InitParse ==
  /\ pEvent \in ParseEvents
  /\ pColor \in Colours
  /\ tz \in Zones
  /\ pOut = <<>>
  /\ WindowIdle /\ ImageIdle

\* One pass of the loop body on an occurrence not seen before.
ParseOne ==
  /\ pOut = <<>>
  /\ pc = "idle" /\ wpc = "idle"
  /\ pOut' = <<ParsedEvent(pEvent, pColor, get_contrast_color(pColor), tz)>>
  /\ UNCHANGED <<pEvent, pColor, tz, windowVars, imageVars>>

NextParse == ParseOne

SpecParse == InitParse /\ [][NextParse]_vars

----------------------------------------------------------------------------
(* fetch_ics_events and generate_image: SpecAgg and Spec                    *)

RECURSIVE TotalEvents(_)
TotalEvents(rs) == IF rs = <<>> THEN 0 ELSE Len(Head(rs).events) + TotalEvents(Tail(rs))

Pairs == Zip(settings.calendarURLs, settings.calendarColors)

\* The mutant of StateAfterFetch that skips a source whose fetch failed.
StateAfterFetchSkipsFailure(outcome) == "fetch"

\* Lines 157-158: a failed fetch raises out of fetch_ics_events and out of
\* generate_image; otherwise the loop goes on.
StateAfterFetch(outcome) == IF outcome.ok THEN "fetch" ELSE "error"

\* A direct call of fetch_ics_events(calendar_urls, colors, tz, start, end).
InitAgg ==
  /\ \E n \in 0..MaxSources :
       \E urls \in {[i \in 1..n |-> <<"u", NatText(i)>>]}, colors \in [1..n -> Colours] :
         settings = [viewMode |-> "listWeek", calendarURLs |-> urls,
                     calendarColors |-> colors]
  /\ tz = DefaultZone
  /\ current_dt = Aware(0, 0)
  /\ pc = "fetch" /\ error = "" /\ idx = 0 /\ reads = <<>>
  /\ parsed_events = <<>> /\ seen_events = {} /\ events = <<>>
  /\ WindowIdle /\ ParseIdle

\* A call of generate_image(settings, device_config).
Init ==
  /\ settings \in
       UNION {UNION {WithKey(s1, "calendarColors", SeqsUpTo(Colours, MaxSources)) :
                       s1 \in WithKey(s0, "calendarURLs", SeqsUpTo(Locations, MaxSources))} :
                s0 \in WithKey(<<>>, "viewMode", ViewInputs)}
  /\ tz = DefaultZone
  /\ current_dt = Aware(0, 0)
  /\ pc = "validate" /\ error = "" /\ idx = 0 /\ reads = <<>>
  /\ parsed_events = <<>> /\ seen_events = {} /\ events = <<>>
  /\ WindowIdle /\ ParseIdle

\* Lines 26-51 and 80-84: the checks of the settings, the current instant,
\* and the entry into fetch_ics_events, where zip raises TypeError on colours
\* that are None.  The window get_view_range returns is handed to the reader,
\* whose answer is drawn freely in FetchSource.
Validate ==
  /\ pc = "validate"
  /\ IF ConfigError(settings) # ""
     THEN /\ pc' = "error" /\ error' = ConfigError(settings)
          /\ UNCHANGED current_dt
     ELSE /\ \E now \in Nows : current_dt' = Aware(now + tz, tz)
          /\ IF Missing(settings, "calendarColors")
             THEN pc' = "error" /\ error' = "TypeError"
             ELSE pc' = "fetch" /\ error' = ""
  /\ UNCHANGED <<settings, tz, idx, reads, parsed_events, seen_events, events,
                 windowVars, parseVars>>

\* Lines 84-102: one pass of the outer loop: fetch_calendar on the next URL
\* of the zip, then the inner loop over its events.
FetchSource(pool, cap) ==
  /\ pc = "fetch"
  /\ idx < Len(Pairs)
  /\ \E outcome \in ReaderOutcomes(pool, cap - TotalEvents(reads)) :
       LET calendar_url == Pairs[idx + 1][1]
           color == Pairs[idx + 1][2]
           acc == AddEvents([parsed |-> parsed_events, seen |-> seen_events],
                            outcome.events, color, get_contrast_color(color), tz)
       IN /\ reads' = Append(reads, [url |-> calendar_url, ok |-> outcome.ok,
                                     events |-> outcome.events])
          /\ pc' = StateAfterFetch(outcome)
          /\ error' = IF pc' = "error" THEN "Failed to fetch iCalendar url" ELSE ""
          /\ idx' = idx + 1
          /\ parsed_events' = IF outcome.ok THEN acc.parsed ELSE parsed_events
          /\ seen_events' = IF outcome.ok THEN acc.seen ELSE seen_events
  /\ UNCHANGED <<settings, tz, current_dt, events, windowVars, parseVars>>

\* Line 103 and line 51: the zip is exhausted, fetch_ics_events returns
\* parsed_events to generate_image.
ReturnEvents ==
  /\ pc = "fetch"
  /\ idx = Len(Pairs)
  /\ events' = parsed_events
  /\ pc' = "returned"
  /\ UNCHANGED <<settings, tz, current_dt, error, idx, reads, parsed_events,
                 seen_events, windowVars, parseVars>>

\* Lines 52-77: the hide-completed filter when skip_completed is set, then
\* the events go to the template and render_image takes the screenshot: a
\* falsy image raises RuntimeError, after the filter has replaced events.
Render ==
  /\ pc = "returned"
  /\ \E is_skip_completed \in BOOLEAN, image \in BOOLEAN :
       LET f == IF is_skip_completed THEN HideCompleted(events, current_dt)
                ELSE [error |-> "", events |-> events]
       IN IF f.error # ""
          THEN pc' = "error" /\ error' = f.error /\ UNCHANGED events
          ELSE IF ~ image
          THEN /\ pc' = "error"
               /\ error' = "Failed to take screenshot, please check logs."
               /\ events' = f.events
          ELSE pc' = "rendered" /\ events' = f.events /\ UNCHANGED error
  /\ UNCHANGED <<settings, tz, current_dt, idx, reads, parsed_events, seen_events,
                 windowVars, parseVars>>

NextAgg == FetchSource(AggPool, MaxEvents) \/ ReturnEvents

SpecAgg == InitAgg /\ [][NextAgg]_vars

Next == Validate \/ FetchSource(ImagePool, MaxFeed) \/ ReturnEvents \/ Render

Spec == Init /\ [][Next]_vars

----------------------------------------------------------------------------
(* The claims about get_view_range, under SpecWindow                        *)

\* a is strictly before b, field by field.
StrictlyBefore(a, b) ==
  \/ a.year < b.year
  \/ a.year = b.year /\ a.month < b.month
  \/ a.year = b.year /\ a.month = b.month /\ a.day < b.day
  \/ a.year = b.year /\ a.month = b.month /\ a.day = b.day /\ a.hour < b.hour

Today == Midnight(wNow.year, wNow.month, wNow.day)

\* C6: for every valid view, current date, weekStartDay and leading-days flag,
\* get_view_range returns without error a window whose end is strictly after
\* its start, both bounds at midnight, the same whatever the time of day of
\* the current instant.
C6_WindowWellFormed ==
  wpc # "call" =>
    /\ wpc = "returned"
    /\ Len(wRange) = 2
    /\ StrictlyBefore(wRange[1], wRange[2])
    /\ wRange[1].hour = 0 /\ wRange[2].hour = 0
    /\ \A h \in Hours :
         get_view_range(wView, [wNow EXCEPT !.hour = h], wSettings) = wRange

\* C6 witness: a week window pulled back from an instant in the afternoon.
C6_Witness ==
  /\ wpc = "returned"
  /\ wView = "timeGridWeek"
  /\ wSettings.displayPreviousDays = "true"
  /\ wNow.hour = 13
  /\ wRange[1] # Today

\* C7: in the week view with leading days, the start is the most recent day on
\* or before today whose weekday is weekStartDay (Monday = 1), the end is the
\* start plus 7 days and today lies in [start, end); without leading days the
\* start is today and the end is today plus 7 days.
C7_WeekWindow ==
  (wpc = "returned" /\ wView = "timeGridWeek") =>
    LET start == wRange[1]
        end == wRange[2]
        back == ToOrdinal(Today) - ToOrdinal(start)
    IN /\ ToOrdinal(end) - ToOrdinal(start) = 7
       /\ start.hour = 0 /\ end.hour = 0
       /\ IF wSettings.displayPreviousDays = "true"
          THEN /\ back \in 0..6
               /\ Weekday(start) + 1 = WeekStartDayOf(wSettings)
               /\ ~ StrictlyBefore(Today, start)
               /\ StrictlyBefore(Today, end)
          ELSE start = Today

\* C7 witness: Wednesday 2024-01-03 with the week starting on Sunday: the
\* start is pulled back three days, into the year before.
C7_Witness ==
  /\ wpc = "returned"
  /\ wView = "timeGridWeek"
  /\ wSettings = [displayPreviousDays |-> "true", weekStartDay |-> "7"]
  /\ wNow.year = 2024 /\ wNow.month = 1 /\ wNow.day = 3
  /\ wRange[1] = Midnight(2023, 12, 31)

\* C8: in the month view the start is the first of the current month minus 7
\* days and the end is the first plus 42 days, 49 days apart, and the start
\* lies in the month before the current one, never in a later one.
C8_MonthWindow ==
  (wpc = "returned" /\ wView = "dayGridMonth") =>
    LET start == wRange[1]
        end == wRange[2]
        first == Midnight(wNow.year, wNow.month, 1)
        prevY == IF wNow.month = 1 THEN wNow.year - 1 ELSE wNow.year
        prevM == IF wNow.month = 1 THEN 12 ELSE wNow.month - 1
    IN /\ ToOrdinal(first) - ToOrdinal(start) = 7
       /\ ToOrdinal(end) - ToOrdinal(first) = 42
       /\ ToOrdinal(end) - ToOrdinal(start) = 49
       /\ start = Midnight(prevY, prevM, DaysInMonth(prevY, prevM) - 6)
       /\ ~ StrictlyBefore(first, start)
       /\ end.hour = 0

\* C8 witness: the last day of March in a leap year: the window starts in
\* February and ends in May.
C8_Witness ==
  /\ wpc = "returned"
  /\ wView = "dayGridMonth"
  /\ wNow.year = 2024 /\ wNow.month = 3 /\ wNow.day = 31
  /\ wRange = <<Midnight(2024, 2, 23), Midnight(2024, 4, 12)>>

----------------------------------------------------------------------------
(* The claims about parse_data_points, under SpecParse                      *)

\* The instant an aware datetime text <<day, hour, offset>> denotes.
TextInstant(text) == 24 * text[1] + text[2] - text[3]

\* C9: the end of an event is its explicit end marker when there is one, also
\* when there is a duration too; otherwise its start plus its duration when
\* there is a duration; otherwise the event has no end field.
C9_EndPrecedence ==
  pOut # <<>> =>
    LET ev == pOut[1]
    IN IF "dtend" \in DOMAIN pEvent
       THEN /\ "end" \in DOMAIN ev
            /\ IF IsDatetime(pEvent.dtend)
               THEN /\ Len(ev.end) = 3
                    /\ TextInstant(ev.end) = Instant(pEvent.dtend)
                    /\ ev.end[3] = tz
               ELSE ev.end = <<pEvent.dtend.day>>
       ELSE IF "duration" \in DOMAIN pEvent
       THEN /\ "end" \in DOMAIN ev
            /\ IF IsDatetime(pEvent.dtstart)
               THEN /\ Len(ev.end) = 3
                    /\ TextInstant(ev.end) = TextInstant(ev.start) + pEvent.duration
               ELSE ev.end = <<ev.start[1] + pEvent.duration \div 24>>
       ELSE "end" \notin DOMAIN ev

\* C9 witness: an occurrence with an end two hours after its start and a
\* duration of a day: the event ends at the explicit end.
C9_Witness ==
  /\ pOut # <<>>
  /\ pEvent = [dtstart |-> Aware(34, 0), dtend |-> Aware(29, 0 - 5), duration |-> 24]
  /\ tz = 1
  /\ pOut[1].start = <<1, 11, 1>>
  /\ pOut[1].end = <<1, 11, 1>>

----------------------------------------------------------------------------
(* The claims about fetch_ics_events, under SpecAgg                         *)

\* The occurrences the readers returned so far, in source-then-occurrence
\* order, each with the colour of its source.
RECURSIVE Encountered(_)
Encountered(n) ==
  IF n = 0 THEN <<>>
  ELSE Encountered(n - 1) \o
       [k \in 1..Len(reads[n].events) |->
          [event |-> reads[n].events[k], color |-> settings.calendarColors[n]]]

\* The dedup key of the specification: the pair (title, raw start marker).
DedupKey(event) == <<StrOfSummary(event), StrOfStart(event.dtstart)>>

\* The positions of the occurrences that are the first with their key.
FirstPositions(cat) ==
  SelectSeq([p \in 1..Len(cat) |-> p],
            LAMBDA p : \A q \in 1..(p - 1) : DedupKey(cat[q].event) # DedupKey(cat[p].event))

\* The event record an encountered occurrence gives.
Built(it) == ParsedEvent(it.event, it.color, get_contrast_color(it.color), tz)

\* C1: the result holds one event for each dedup key (title, raw start
\* marker) among the occurrences encountered, that of the first occurrence
\* with the key in source-then-occurrence order, in the colours of the source
\* it was first seen in; no two events of the result share a key.
C1_FirstOfEachKey ==
  LET cat == Encountered(Len(reads))
      firsts == FirstPositions(cat)
  IN /\ Len(parsed_events) = Len(firsts)
     /\ \A i \in 1..Len(firsts) :
          /\ parsed_events[i] = Built(cat[firsts[i]])
          /\ parsed_events[i].title = StrOfSummary(cat[firsts[i]].event)
          /\ parsed_events[i].backgroundColor = cat[firsts[i]].color
          /\ parsed_events[i].textColor =
               (IF cat[firsts[i]].color = "#ffffff" THEN "#000000" ELSE "#ffffff")
     /\ pc = "returned" => events = parsed_events

\* C1 witness: the second source repeats the key of an occurrence of the
\* first, with an end and in another colour; the result keeps the first.
C1_Witness ==
  /\ pc = "returned"
  /\ settings.calendarColors = <<"#ffffff", "#000000">>
  /\ Len(reads) = 2
  /\ reads[1].events = <<Untitled>>
  /\ reads[2].events = <<TitledNone, Underscore>>
  /\ Len(events) = 2
  /\ events[1].title = "None" /\ events[1].backgroundColor = "#ffffff"
  /\ events[1].textColor = "#000000" /\ "end" \notin DOMAIN events[1]
  /\ events[2].title = "a_b" /\ events[2].backgroundColor = "#000000"
  /\ events[2].textColor = "#ffffff"

\* s is a subsequence of t.
RECURSIVE IsSubseq(_, _)
IsSubseq(s, t) ==
  IF s = <<>> THEN TRUE
  ELSE IF t = <<>> THEN FALSE
  ELSE IF Head(s) = Head(t) THEN IsSubseq(Tail(s), Tail(t))
  ELSE IsSubseq(s, Tail(t))

\* C5: the result is a subsequence of the events of the occurrences in the
\* order they were encountered, source by source; it is not sorted by start.
C5_EncounterOrder ==
  LET cat == Encountered(Len(reads))
      all == [p \in 1..Len(cat) |-> Built(cat[p])]
  IN /\ IsSubseq(parsed_events, all)
     /\ pc = "returned" => events = parsed_events

\* C5 witness: a timed event of day 1 read first stands before an all-day
\* event of day 1 read from the next source.
C5_Witness ==
  /\ pc = "returned"
  /\ Len(reads) = 2
  /\ reads[1].events = <<Timed, Timed>>
  /\ reads[2].events = <<Untitled>>
  /\ Len(events) = 2
  /\ events[1].start = <<1, 5, 0 - 5>> /\ ~ events[1].allDay
  /\ events[2].start = <<1>> /\ events[2].allDay

----------------------------------------------------------------------------
(* The claims about generate_image, under Spec                              *)

\* C2: a failed fetch is the last call of the reader: the call ends in the
\* error, no event list is returned, no later source is read and the failed
\* source is not read again.
C2_AllOrNothing ==
  /\ Len(reads) = idx
  /\ \A i \in 1..Len(reads) :
       /\ reads[i].url = settings.calendarURLs[i]
       /\ ~ reads[i].ok =>
            /\ i = Len(reads)
            /\ pc = "error"
            /\ error = "Failed to fetch iCalendar url"
            /\ events = <<>>
  /\ pc \in {"returned", "rendered"} => \A i \in 1..Len(reads) : reads[i].ok

\* C2 witness: the first source gave an event, the fetch of the second failed.
C2_Witness ==
  /\ pc = "error"
  /\ Len(reads) = 2
  /\ reads[1].ok /\ reads[1].events # <<>>
  /\ ~ reads[2].ok
  /\ parsed_events # <<>>
  /\ events = <<>>

\* A text of blanks only, the empty text included.
IsBlank(t) == \A i \in 1..Len(t) : t[i] = " "

\* The settings the specification rejects.
BadSettings ==
  \/ Missing(settings, "viewMode")
  \/ settings.viewMode \notin ValidViews
  \/ Missing(settings, "calendarURLs")
  \/ settings.calendarURLs = <<>>
  \/ \E i \in 1..Len(settings.calendarURLs) : IsBlank(settings.calendarURLs[i])

\* C3: a configuration error is raised before any source is fetched: a run
\* with bad settings ends in a configuration error with no call of the
\* reader, and when the reader is called the view is valid and no supplied
\* URL is blank.
C3_ConfigErrorFirst ==
  /\ error \in ConfigErrors => (pc = "error" /\ reads = <<>>)
  /\ (pc # "validate" /\ BadSettings) => error \in ConfigErrors
  /\ reads # <<>> => ~ BadSettings

\* C3 witness: the second of two URLs is blank.
C3_Witness ==
  /\ pc = "error"
  /\ error = "Invalid calendar URL"
  /\ settings.viewMode = "dayGridMonth"
  /\ settings.calendarURLs = <<<<"a">>, <<" ">>>>
  /\ reads = <<>>

\* The end of an event is after the instant now: an all-day end counts from
\* its midnight.
EndsAfter(ev, now) ==
  IF Len(ev.end) = 3 THEN TextInstant(ev.end) > Instant(now)
  ELSE 24 * ev.end[1] > now.wall

\* C4: the hide-completed filter completes without error (the step after
\* fetch_ics_events returns ends rendered, or in the screenshot error only)
\* and returns exactly the events with no end or with an end strictly after
\* the instant.
C4_HideCompletedKeepsOpenEnded ==
  [][pc = "returned" =>
       /\ \/ pc' = "rendered"
          \/ pc' = "error" /\ error' = "Failed to take screenshot, please check logs."
       /\ \/ events' = events
          \/ events' = SelectSeq(events,
                         LAMBDA ev : "end" \notin DOMAIN ev \/ EndsAfter(ev, current_dt))]_vars

\* C10: when the aggregation completes, every validated calendar URL was
\* read once, in the order supplied, whatever the length of the colour list.
C10_EverySourceRead ==
  pc \in {"returned", "rendered"} =>
    [i \in 1..Len(reads) |-> reads[i].url] = settings.calendarURLs

====
